---- MODULE Spec2Model ----
(***************************************************************************)
(* Model of client/bootloader_flash.py: one flashing session over a CAN    *)
(* bridge.  The session erases the pages of the image, writes the image    *)
(* in chunks, stores size and CRC in the config, asks every node for the   *)
(* CRC of the written region and optionally starts the application.        *)
(*                                                                         *)
(* Sizes are scaled: the chunk size, the page sizes and the image lengths  *)
(* are a few bytes instead of a few kilobytes.  Every formula is written   *)
(* in terms of CHUNK_SIZE and page_size, not of their values.              *)
(***************************************************************************)
EXTENDS Integers, Sequences, FiniteSets, TLC

(***************************************************************************)
(* Bounds of the model.                                                    *)
(***************************************************************************)
\* Stand-in for CHUNK_SIZE = 2048 (bootloader_flash.py line 13), scaled.
CHUNK_SIZE == 2

\* Longest image, in bytes.
MaxLen == 5

\* Payload bytes carried by one bus frame.
MaxFrameData == 4

Nodes == {1, 2, 3}

\* The page sizes flash_binary is called with: its default, which equals the
\* chunk size, one below and one above.
PageSizes == {CHUNK_SIZE - 1, CHUNK_SIZE, CHUNK_SIZE + 1}

BaseAddresses == {0, 134217728}
DeviceClasses == {"motor-board"}

\* First byte of the images; 255 is also what an erased byte reads as.
Seeds == {255}

Min(a, b) == IF a < b THEN a ELSE b

\* ceil(a / b) for a >= 0, b > 0.
CeilDiv(a, b) == (a + b - 1) \div b

Range(s) == {s[i] : i \in 1..Len(s)}

\* An image of length L whose bytes count up from seed, modulo 256.
Ramp(L, seed) == [i \in 1..L |-> (seed + i - 1) % 256]

Images == {Ramp(L, s) : L \in 0..MaxLen, s \in Seeds}

\* Non-empty lists of distinct node identifiers (argparse nargs='+').
DestinationLists == {<<2>>, <<3, 1>>, <<1, 2, 3>>}

(***************************************************************************)
(* 32-bit words as pairs <<low half, high half>> of 16-bit numbers, and    *)
(* CRC-32 on them.  The steps are functions, not operators: a function is  *)
(* applied to the value of its argument.                                   *)
(***************************************************************************)
Half == 0..65535
Word32 == Half \X Half

Word(lo, hi) == <<lo, hi>>

\* The bit of weight k (a power of two) of a xor b.
XorBit(a, b, k) == (((a \div k) + (b \div k)) % 2) * k

Xor16[a \in Half, b \in Half] ==
    XorBit(a, b, 1) + XorBit(a, b, 2) + XorBit(a, b, 4) + XorBit(a, b, 8)
    + XorBit(a, b, 16) + XorBit(a, b, 32) + XorBit(a, b, 64) + XorBit(a, b, 128)
    + XorBit(a, b, 256) + XorBit(a, b, 512) + XorBit(a, b, 1024)
    + XorBit(a, b, 2048) + XorBit(a, b, 4096) + XorBit(a, b, 8192)
    + XorBit(a, b, 16384) + XorBit(a, b, 32768)

Xor32[a \in Word32, b \in Word32] == <<Xor16[a[1], b[1]], Xor16[a[2], b[2]]>>

Shr1[a \in Word32] == <<(a[1] \div 2) + (a[2] % 2) * 32768, a[2] \div 2>>

AllOnes == Word(65535, 65535)

\* The reflected CRC-32 polynomial 0xEDB88320.
Poly == Word(33568, 60856)

\* One bit of the CRC register shifted out.
CrcShift[c \in Word32] ==
    IF (c[1] % 2) = 1 THEN Xor32[Shr1[c], Poly] ELSE Shr1[c]

\* One byte taken into the CRC register.
CrcByte[c \in Word32, b \in 0..255] ==
    CrcShift[CrcShift[CrcShift[CrcShift[
        CrcShift[CrcShift[CrcShift[CrcShift[Xor32[c, Word(b, 0)]]]]]]]]]

Crc32Of[s \in Seq(0..255)] ==
    LET reg[n \in 0..Len(s)] ==
            IF n = 0 THEN AllOnes ELSE CrcByte[reg[n - 1], s[n]]
    IN  Xor32[reg[Len(s)], AllOnes]

\* zlib.crc32 of a byte string, as an unsigned 32-bit word.
crc32(s) == Crc32Of[s]

(***************************************************************************)
(* The codecs the client calls.  A command is kept as the record of what   *)
(* was encoded; the client never looks inside it.                          *)
(***************************************************************************)
NoConfig == [k \in {} |-> 0]

Command(kind, address, device_class, data, length, config) ==
    [kind |-> kind, address |-> address, device_class |-> device_class,
     data |-> data, length |-> length, config |-> config]

encode_erase_flash_page(address, device_class) ==
    Command("erase-page", address, device_class, <<>>, 0, NoConfig)

encode_write_flash(data, address, device_class) ==
    Command("write-flash", address, device_class, data, 0, NoConfig)

encode_update_config(config) ==
    Command("update-config", 0, "", <<>>, 0, config)

encode_save_config == Command("save-config", 0, "", <<>>, 0, NoConfig)

encode_crc_region(address, length) ==
    Command("crc-region", address, "", <<>>, length, NoConfig)

encode_jump_to_main == Command("jump-to-main", 0, "", <<>>, 0, NoConfig)

\* page.slice_into_pages: consecutive slices of the given size, the last
\* one possibly shorter; no slice for empty data.
slice_into_pages(data, size) ==
    [i \in 1..CeilDiv(Len(data), size) |->
        SubSeq(data, (i - 1) * size + 1, Min(i * size, Len(data)))]

\* can.encode_datagram: destination count, destinations, data length, data.
encode_datagram(data, dests) ==
    <<Len(dests)>> \o dests \o <<Len(data)>> \o data

\* can.decode_datagram: <<data, destinations>> once the buffer holds a
\* whole datagram, None (the empty tuple) while it does not.
None == <<>>

decode_datagram(b) ==
    IF Len(b) < 1 \/ Len(b) < b[1] + 2
    THEN None
    ELSE LET nd == b[1]
             n  == b[nd + 2]
         IN  IF Len(b) < nd + 2 + n
             THEN None
             ELSE <<SubSeq(b, nd + 3, nd + 2 + n), SubSeq(b, 2, nd + 1)>>

\* can.datagram_to_frames: the datagram cut into frames of at most
\* MaxFrameData bytes, each tagged with the sender.
datagram_to_frames(datagram, source) ==
    LET frames[d \in Seq(0..255)] ==
            [i \in 1..CeilDiv(Len(d), MaxFrameData) |->
                [source |-> source,
                 data |-> SubSeq(d, (i - 1) * MaxFrameData + 1,
                                 Min(i * MaxFrameData, Len(d)))]]
    IN  frames[datagram]

\* msgpack: an unsigned 32-bit integer is the byte 0xce and four bytes,
\* most significant first.
packb(w) ==
    LET pack[v \in Word32] ==
            <<206, v[2] \div 256, v[2] % 256, v[1] \div 256, v[1] % 256>>
    IN  pack[w]

unpackb(p) == Word(p[4] * 256 + p[5], p[2] * 256 + p[3])

\* The bytes of an encoded command: the command code, then its arguments.
Opcode(kind) ==
    CASE kind = "jump-to-main" -> 1
      [] kind = "crc-region" -> 2
      [] kind = "erase-page" -> 3
      [] kind = "write-flash" -> 4
      [] kind = "update-config" -> 5
      [] OTHER -> 6

AddressBytes(a) ==
    <<a \div 16777216, (a \div 65536) % 256, (a \div 256) % 256, a % 256>>

KeyBytes(k, v) ==
    CASE k = "application_crc" ->
             <<1, v[2] \div 256, v[2] % 256, v[1] \div 256, v[1] % 256>>
      [] k = "application_size" -> <<2, v>>
      [] OTHER -> <<3, v>>

config_bytes(config) ==
    (IF "application_crc" \in DOMAIN config
     THEN KeyBytes("application_crc", config["application_crc"]) ELSE <<>>)
    \o (IF "application_size" \in DOMAIN config
        THEN KeyBytes("application_size", config["application_size"]) ELSE <<>>)
    \o (IF "ID" \in DOMAIN config THEN KeyBytes("ID", config["ID"]) ELSE <<>>)

command_bytes(c) ==
    <<Opcode(c.kind)>>
    \o (IF c.kind \in {"erase-page", "write-flash", "crc-region"}
        THEN AddressBytes(c.address) ELSE <<>>)
    \o (IF c.kind = "crc-region" THEN <<c.length>> ELSE <<>>)
    \o c.data
    \o config_bytes(c.config)

\* What write_command hands to fdesc.write for one frame:
\* serial_datagrams.datagram_encode(can_bridge.encode_frame_command(frame)).
bridge_unit(frame) == [event |-> "write", frame |-> frame]

\* time.sleep(0.3) of write_command, as an entry of the transport log.
Settle == [event |-> "sleep", frame |-> [source |-> 0, data |-> <<>>]]

\* The units of a command, written last frame first.
Units_reversed(command, dests) ==
    LET frames == datagram_to_frames(
                      encode_datagram(command_bytes(command), dests), 0)
    IN  [i \in 1..Len(frames) |-> bridge_unit(frames[Len(frames) + 1 - i])]

\* The units write_command writes for a command, in frame order.
Units(command, dests) ==
    LET frames == datagram_to_frames(
                      encode_datagram(command_bytes(command), dests), 0)
    IN  [i \in 1..Len(frames) |-> bridge_unit(frames[i])]

(***************************************************************************)
(* The state of one session.                                               *)
(***************************************************************************)
VARIABLES
    binary,         \* the image (main: input_file.read())
    base_address,   \* args.base_address
    device_class,   \* args.device_class
    destinations,   \* args.ids
    page_size,      \* page_size of flash_binary
    run,            \* args.run
    pc,             \* where the session stands
    offset,         \* offset of the erase loop of flash_binary
    index,          \* number of chunks the write loop has taken
    node_index,     \* number of nodes check_binary has taken
    valid_nodes,    \* valid_nodes of check_binary
    buf,            \* buf of read_can_datagram
    received,       \* the frames the current read_can_datagram has received
    decodes,        \* calls of can.decode_datagram in the current read_can_datagram
    config,         \* the config config_update_and_save is called with
    timed_out,      \* a read of the current read_can_datagram timed out
    report,         \* what main printed about the verification
    failed_nodes,   \* the nodes verification_failed printed
    exit_status,    \* exit status of the process, -1 while it runs
    sent,           \* every write_command that returned: command and destinations
    wire,           \* every unit written to fdesc and every settle delay, in order
    crc_log,        \* every value crc_region returned: node and crc
    rx,             \* frames on their way from the bus to the client
    mem,            \* flash of every node, from base_address on
    cfg,            \* config of every node, key by key
    fault           \* how every simulated node misbehaves

inputs == <<binary, base_address, device_class, destinations, page_size, run, fault>>

vars == <<binary, base_address, device_class, destinations, page_size, run,
          pc, offset, index, node_index, valid_nodes, buf, received, decodes,
          config, timed_out, report, failed_nodes, exit_status, sent, wire,
          crc_log, rx, mem, cfg, fault>>

\* "answers_all": the node answers every crc-region command it sees on the
\* bus, addressed to it or not.
Faults == {"none", "drop_last_write", "silent", "answers_all"}

\* The nodes in the order they get the bus.
NodeList == <<1, 2, 3>>

\* The config a node holds before the session.
FactoryConfig == [name |-> "node", ID |-> 7]

\* Bytes of flash every simulated node keeps, starting at base_address.
MemSpan == MaxLen + CHUNK_SIZE + 1

\* An erased byte of flash reads as all ones.
ERASED == 2 ^ 8 - 1

(***************************************************************************)
(* The simulated nodes.                                                    *)
(***************************************************************************)
\* Flash of a node after it has applied a command verbatim.
ApplyToFlash(m, command) ==
    LET first == command.address - base_address + 1
    IN  IF command.kind = "erase-page"
        THEN [i \in 1..Len(m) |->
                 IF first <= i /\ i < first + page_size THEN ERASED ELSE m[i]]
        ELSE IF command.kind = "write-flash"
        THEN [i \in 1..Len(m) |->
                 IF first <= i /\ i < first + Len(command.data)
                 THEN command.data[i - first + 1] ELSE m[i]]
        ELSE m

\* The bytes of [address, address + length) in the flash of a node.
Region(m, address, length) ==
    LET first == address - base_address + 1
    IN  SubSeq(m, first, first + length - 1)

\* The node drops the write command that carries the end of the image.
Drops(n, command) ==
    /\ fault[n] = "drop_last_write"
    /\ command.kind = "write-flash"
    /\ command.address - base_address + Len(command.data) = Len(binary)

\* Config of a node after it has applied a command: update-config is merged
\* key by key into what the node holds.
ApplyToConfig(c, command) ==
    IF command.kind = "update-config"
    THEN [k \in DOMAIN c \cup DOMAIN command.config |->
             IF k \in DOMAIN command.config THEN command.config[k] ELSE c[k]]
    ELSE c

\* The nodes that answer a command they were not sent.
Overhearing(dests) ==
    SelectSeq(NodeList, LAMBDA n : n \notin Range(dests) /\ fault[n] = "answers_all")

\* The frames a node sends in answer to a command.
Answer(n, m, command) ==
    IF command.kind = "crc-region" /\ fault[n] # "silent"
    THEN datagram_to_frames(
             encode_datagram(
                 packb(crc32(Region(m, command.address, command.length))),
                 <<0>>),
             n)
    ELSE <<>>

RECURSIVE Answers(_, _, _)
Answers(dests, m, command) ==
    IF dests = <<>> THEN <<>>
    ELSE Answer(Head(dests), m[Head(dests)], command)
         \o Answers(Tail(dests), m, command)

(***************************************************************************)
(* write_command: the command goes to the bus, the addressed nodes act on  *)
(* it during the settle delay.                                             *)
(***************************************************************************)
write_command(command, destinations_) ==
    \E c \in {command}, dests \in {destinations_} :
        \E m2 \in {[n \in Nodes |->
                       IF n \in Range(dests) /\ ~Drops(n, c)
                       THEN ApplyToFlash(mem[n], c) ELSE mem[n]]} :
            /\ sent' = Append(sent, [command |-> c, destinations |-> dests])
            /\ wire' = wire \o Units(c, dests) \o <<Settle>>
            /\ mem' = m2
            /\ cfg' = [n \in Nodes |->
                          IF n \in Range(dests)
                          THEN ApplyToConfig(cfg[n], c) ELSE cfg[n]]
            /\ rx' = rx \o Answers(dests, m2, c) \o Answers(Overhearing(dests), m2, c)

Init ==
    /\ binary \in Images
    /\ base_address \in BaseAddresses
    /\ device_class \in DeviceClasses
    /\ destinations \in DestinationLists
    /\ page_size \in PageSizes
    /\ run \in BOOLEAN
    /\ fault \in [Nodes -> Faults]
    /\ \A n \in Nodes : fault[n] # "none" => n \in Range(destinations)
    /\ Cardinality({n \in Nodes : fault[n] # "none"}) <= 1
    /\ pc = "erase"
    /\ offset = 0
    /\ index = 0
    /\ node_index = 0
    /\ valid_nodes = <<>>
    /\ buf = <<>>
    /\ received = <<>>
    /\ decodes = 0
    /\ config = NoConfig
    /\ timed_out = FALSE
    /\ report = "none"
    /\ failed_nodes = {}
    /\ exit_status = -1
    /\ sent = <<>>
    /\ wire = <<>>
    /\ crc_log = <<>>
    /\ rx = <<>>
    /\ mem = [n \in Nodes |-> [i \in 1..MemSpan |-> 0]]
    /\ cfg = [n \in Nodes |-> FactoryConfig]

(***************************************************************************)
(* flash_binary                                                            *)
(***************************************************************************)
\* The chunks of the write loop, with one empty chunk for an empty image.
Chunks_never_empty ==
    IF binary = <<>> THEN << <<>> >> ELSE slice_into_pages(binary, CHUNK_SIZE)

\* The chunks the write loop enumerates.
Chunks == slice_into_pages(binary, CHUNK_SIZE)

\* The config of the finalize step, with the CRC taken over the first chunk
\* only.
FinalConfig_first_chunk ==
    [application_size |-> Len(binary),
     application_crc |-> crc32(SubSeq(binary, 1, Min(CHUNK_SIZE, Len(binary))))]

\* The config of the finalize step.
FinalConfig ==
    [application_size |-> Len(binary), application_crc |-> crc32(binary)]

flash_vars == <<offset, index, config>>
check_vars == <<node_index, valid_nodes, buf, received, decodes, timed_out, crc_log>>
main_vars == <<report, failed_nodes, exit_status>>

\* One pass of the erase loop, stepping one byte further than a page.
ErasePage_wide_stride ==
    /\ pc = "erase"
    /\ offset < Len(binary)
    /\ write_command(encode_erase_flash_page(base_address + offset, device_class),
                     destinations)
    /\ offset' = offset + page_size + 1
    /\ UNCHANGED <<inputs, pc, index, config, check_vars, main_vars>>

\* One pass of the erase loop, entered also for offset = len(binary).
ErasePage_inclusive ==
    /\ pc = "erase"
    /\ offset <= Len(binary)
    /\ write_command(encode_erase_flash_page(base_address + offset, device_class),
                     destinations)
    /\ offset' = offset + page_size
    /\ UNCHANGED <<inputs, pc, index, config, check_vars, main_vars>>

\* One pass of the erase loop.
ErasePage ==
    /\ pc = "erase"
    /\ offset < Len(binary)
    /\ write_command(encode_erase_flash_page(base_address + offset, device_class),
                     destinations)
    /\ offset' = offset + page_size
    /\ UNCHANGED <<inputs, pc, index, config, check_vars, main_vars>>

\* The erase loop is exhausted; the write loop starts.
EraseDone ==
    /\ pc = "erase"
    /\ ~(offset < Len(binary))
    /\ pc' = "write"
    /\ index' = 0
    /\ UNCHANGED <<inputs, offset, config, check_vars, main_vars,
                   sent, wire, rx, mem, cfg>>

\* The address of a chunk, without the scaling of the chunk number.
chunk_address_unscaled(i) == base_address + i

\* The address of chunk number i (from 0): offset *= CHUNK_SIZE.
chunk_address(i) == base_address + i * CHUNK_SIZE

\* One pass of the write loop, taken while the erase loop still runs.
WriteChunk_interleaved ==
    /\ pc \in {"erase", "write"}
    /\ index < Len(Chunks)
    /\ write_command(encode_write_flash(Chunks[index + 1],
                                        chunk_address(index),
                                        device_class),
                     destinations)
    /\ index' = index + 1
    /\ UNCHANGED <<inputs, pc, offset, config, check_vars, main_vars>>

\* One pass of the write loop.
WriteChunk ==
    /\ pc = "write"
    /\ index < Len(Chunks)
    /\ write_command(encode_write_flash(Chunks[index + 1],
                                        chunk_address(index),
                                        device_class),
                     destinations)
    /\ index' = index + 1
    /\ UNCHANGED <<inputs, pc, offset, config, check_vars, main_vars>>

\* The write loop is exhausted; the config is built and
\* config_update_and_save is entered with it.
WriteDone ==
    /\ pc = "write"
    /\ ~(index < Len(Chunks))
    /\ config' = FinalConfig
    /\ pc' = "update_config"
    /\ UNCHANGED <<inputs, offset, index, check_vars, main_vars,
                   sent, wire, rx, mem, cfg>>

\* config_update_and_save, first command, sending the config of the finalize
\* step whatever config it was given.
UpdateConfig_sends_full ==
    /\ pc = "update_config"
    /\ write_command(encode_update_config(FinalConfig), destinations)
    /\ pc' = "save_config"
    /\ UNCHANGED <<inputs, flash_vars, check_vars, main_vars>>

\* config_update_and_save, first command, followed by a read for an
\* acknowledgement that times out.
UpdateConfig_reads_ack ==
    /\ pc = "update_config"
    /\ write_command(encode_update_config(config), destinations)
    /\ timed_out' = TRUE
    /\ pc' = "save_config"
    /\ UNCHANGED <<inputs, flash_vars, node_index, valid_nodes, buf, received,
                   decodes, crc_log, main_vars>>

\* config_update_and_save, first command.
UpdateConfig ==
    /\ pc = "update_config"
    /\ write_command(encode_update_config(config), destinations)
    /\ pc' = "save_config"
    /\ UNCHANGED <<inputs, flash_vars, check_vars, main_vars>>

\* config_update_and_save, second command; flash_binary returns and
\* check_binary starts.
SaveConfig ==
    /\ pc = "save_config"
    /\ write_command(encode_save_config, destinations)
    /\ pc' = "check"
    /\ node_index' = 0
    /\ valid_nodes' = <<>>
    /\ UNCHANGED <<inputs, flash_vars, buf, received, decodes, timed_out,
                   crc_log, main_vars>>

(***************************************************************************)
(* check_binary, crc_region and read_can_datagram                          *)
(***************************************************************************)
\* The crc-region command with the length rounded up to whole chunks.
crc_region_command_whole_chunks ==
    encode_crc_region(base_address, CHUNK_SIZE * Len(Chunks))

\* The command crc_region encodes for check_binary.
crc_region_command == encode_crc_region(base_address, Len(binary))

\* crc_region sending to the whole list.
crc_region_destinations_all(destination) == destinations

\* The destinations crc_region passes to write_command.
crc_region_destinations(destination) == <<destination>>

\* The comparison of check_binary as a truth test of the crc.
crc_matches_nonzero(crc) == crc # Word(0, 0)

\* The comparison of check_binary.
crc_matches(crc) == crc = crc32(binary)

\* crc_region dispatching its command without waiting for the call before
\* it to return.
CrcRequest_pipelined ==
    /\ pc \in {"check", "read"}
    /\ node_index < Len(destinations)
    /\ write_command(crc_region_command,
                     crc_region_destinations(destinations[node_index + 1]))
    /\ buf' = <<>>
    /\ received' = <<>>
    /\ decodes' = 0
    /\ timed_out' = FALSE
    /\ pc' = "read"
    /\ UNCHANGED <<inputs, flash_vars, node_index, valid_nodes, crc_log, main_vars>>

\* crc_region up to the call of read_can_datagram.
CrcRequest ==
    /\ pc = "check"
    /\ node_index < Len(destinations)
    /\ write_command(crc_region_command,
                     crc_region_destinations(destinations[node_index + 1]))
    /\ buf' = <<>>
    /\ received' = <<>>
    /\ decodes' = 0
    /\ timed_out' = FALSE
    /\ pc' = "read"
    /\ UNCHANGED <<inputs, flash_vars, node_index, valid_nodes, crc_log, main_vars>>

\* read_can_datagram giving up on a timed-out read: crc_region gets
\* nothing and check_binary moves on.
ReadTimeout_gives_up ==
    /\ pc = "read"
    /\ timed_out' = TRUE
    /\ node_index' = node_index + 1
    /\ pc' = "check"
    /\ UNCHANGED <<inputs, flash_vars, valid_nodes, buf, received, decodes,
                   crc_log, main_vars, sent, wire, rx, mem, cfg>>

\* read_can_datagram: the read timed out, the loop goes round.
ReadTimeout ==
    /\ pc = "read"
    /\ timed_out' = TRUE
    /\ UNCHANGED <<inputs, pc, flash_vars, node_index, valid_nodes, buf,
                   received, decodes, crc_log, main_vars, sent, wire, rx, mem, cfg>>

\* read_can_datagram leaving only the payload of the last frame in the
\* accumulator.
ReadFrame_overwrites ==
    /\ pc = "read"
    /\ rx # <<>>
    /\ LET frame == Head(rx)
           datagram == decode_datagram(buf \o frame.data)
       IN  /\ rx' = Tail(rx)
           /\ received' = Append(received, frame)
           /\ buf' = frame.data
           /\ decodes' = decodes + 1
           /\ IF datagram = None
              THEN UNCHANGED <<pc, node_index, valid_nodes, crc_log>>
              ELSE LET node == destinations[node_index + 1]
                       crc == unpackb(datagram[1])
                   IN  /\ crc_log' = Append(crc_log, [node |-> node, crc |-> crc])
                       /\ valid_nodes' = IF crc_matches(crc)
                                         THEN Append(valid_nodes, node)
                                         ELSE valid_nodes
                       /\ node_index' = node_index + 1
                       /\ pc' = "check"
    /\ UNCHANGED <<inputs, flash_vars, timed_out, main_vars, sent, wire, mem, cfg>>

\* read_can_datagram dropping the frames that the queried node did not send.
ReadFrame_checks_source ==
    /\ pc = "read"
    /\ rx # <<>>
    /\ LET frame == Head(rx)
           datagram == decode_datagram(buf \o frame.data)
       IN  /\ rx' = Tail(rx)
           /\ IF frame.source # destinations[node_index + 1]
              THEN UNCHANGED <<pc, node_index, valid_nodes, crc_log,
                               received, buf, decodes>>
              ELSE /\ received' = Append(received, frame)
                   /\ buf' = buf \o frame.data
                   /\ decodes' = decodes + 1
                   /\ IF datagram = None
                      THEN UNCHANGED <<pc, node_index, valid_nodes, crc_log>>
                      ELSE LET node == destinations[node_index + 1]
                               crc == unpackb(datagram[1])
                           IN  /\ crc_log' = Append(crc_log, [node |-> node, crc |-> crc])
                               /\ valid_nodes' = IF crc_matches(crc)
                                                 THEN Append(valid_nodes, node)
                                                 ELSE valid_nodes
                               /\ node_index' = node_index + 1
                               /\ pc' = "check"
    /\ UNCHANGED <<inputs, flash_vars, timed_out, main_vars, sent, wire, mem, cfg>>

\* read_can_datagram: a frame arrived.  When the buffer now decodes, the
\* datagram is returned, crc_region unpacks it and check_binary compares.
ReadFrame ==
    /\ pc = "read"
    /\ rx # <<>>
    /\ LET frame == Head(rx)
           datagram == decode_datagram(buf \o frame.data)
       IN  /\ rx' = Tail(rx)
           /\ received' = Append(received, frame)
           /\ buf' = buf \o frame.data
           /\ decodes' = decodes + 1
           /\ IF datagram = None
              THEN UNCHANGED <<pc, node_index, valid_nodes, crc_log>>
              ELSE LET node == destinations[node_index + 1]
                       crc == unpackb(datagram[1])
                   IN  /\ crc_log' = Append(crc_log, [node |-> node, crc |-> crc])
                       /\ valid_nodes' = IF crc_matches(crc)
                                         THEN Append(valid_nodes, node)
                                         ELSE valid_nodes
                       /\ node_index' = node_index + 1
                       /\ pc' = "check"
    /\ UNCHANGED <<inputs, flash_vars, timed_out, main_vars, sent, wire, mem, cfg>>

(***************************************************************************)
(* main after check_binary                                                 *)
(***************************************************************************)
\* The set difference of main with its operands swapped.
missing_nodes_swapped(nodes_set, valid_nodes_set) == valid_nodes_set \ nodes_set

\* The argument main passes to verification_failed.
missing_nodes(nodes_set, valid_nodes_set) == nodes_set \ valid_nodes_set

\* main going on after verification_failed instead of leaving.
Verify_keeps_going ==
    /\ pc = "check"
    /\ ~(node_index < Len(destinations))
    /\ LET valid_nodes_set == Range(valid_nodes)
           nodes_set == Range(destinations)
       IN  IF valid_nodes_set = nodes_set
           THEN /\ report' = "OK"
                /\ failed_nodes' = failed_nodes
                /\ pc' = IF run THEN "run" ELSE "done"
                /\ exit_status' = IF run THEN exit_status ELSE 0
           ELSE /\ report' = "Verification failed"
                /\ failed_nodes' = missing_nodes(nodes_set, valid_nodes_set)
                /\ pc' = IF run THEN "run" ELSE "exit"
                /\ exit_status' = IF run THEN exit_status ELSE 1
    /\ UNCHANGED <<inputs, flash_vars, check_vars, sent, wire, rx, mem, cfg>>

\* check_binary returns; main compares the sets and either prints OK or
\* calls verification_failed.
Verify ==
    /\ pc = "check"
    /\ ~(node_index < Len(destinations))
    /\ LET valid_nodes_set == Range(valid_nodes)
           nodes_set == Range(destinations)
       IN  IF valid_nodes_set = nodes_set
           THEN /\ report' = "OK"
                /\ failed_nodes' = failed_nodes
                /\ pc' = IF run THEN "run" ELSE "done"
                /\ exit_status' = IF run THEN exit_status ELSE 0
           ELSE /\ report' = "Verification failed"
                /\ failed_nodes' = missing_nodes(nodes_set, valid_nodes_set)
                /\ pc' = "exit"
                /\ exit_status' = 1
    /\ UNCHANGED <<inputs, flash_vars, check_vars, sent, wire, rx, mem, cfg>>

\* run_application, then main returns.
RunApplication ==
    /\ pc = "run"
    /\ write_command(encode_jump_to_main, destinations)
    /\ pc' = "done"
    /\ exit_status' = 0
    /\ UNCHANGED <<inputs, flash_vars, check_vars, report, failed_nodes>>

\* A write_command is about to write to the transport.
Dispatching ==
    \/ pc = "erase" /\ offset < Len(binary)
    \/ pc = "write" /\ index < Len(Chunks)
    \/ pc \in {"update_config", "save_config", "run"}
    \/ pc = "check" /\ node_index < Len(destinations)

\* The command and the destinations of the write_command the session is
\* about to call.
Pending ==
    CASE pc = "erase" ->
             [command |-> encode_erase_flash_page(base_address + offset, device_class),
              destinations |-> destinations]
      [] pc = "write" ->
             [command |-> encode_write_flash(Chunks[index + 1], chunk_address(index),
                                             device_class),
              destinations |-> destinations]
      [] pc = "update_config" ->
             [command |-> encode_update_config(config), destinations |-> destinations]
      [] pc = "save_config" ->
             [command |-> encode_save_config, destinations |-> destinations]
      [] pc = "check" ->
             [command |-> crc_region_command,
              destinations |-> crc_region_destinations(destinations[node_index + 1])]
      [] OTHER ->
             [command |-> encode_jump_to_main, destinations |-> destinations]

\* fdesc.write raises on one of the units of a command and write_command
\* is called again for the same command.
WriteFails_retries ==
    /\ Dispatching
    /\ \E units \in {Units(Pending.command, Pending.destinations)} :
           \E j \in 1..Len(units) :
               wire' = wire \o SubSeq(units, 1, j - 1)
    /\ UNCHANGED <<inputs, pc, flash_vars, check_vars, main_vars, sent, rx, mem, cfg>>

\* fdesc.write raises on one of the units of a command: the units before it
\* are written, nothing catches the error, the process ends with a traceback
\* and status 1.
WriteFails ==
    /\ Dispatching
    /\ \E units \in {Units(Pending.command, Pending.destinations)} :
           \E j \in 1..Len(units) :
               wire' = wire \o SubSeq(units, 1, j - 1)
    /\ pc' = "crashed"
    /\ exit_status' = 1
    /\ UNCHANGED <<inputs, flash_vars, check_vars, report, failed_nodes,
                   sent, rx, mem, cfg>>

Next ==
    \/ ErasePage
    \/ EraseDone
    \/ WriteChunk
    \/ WriteDone
    \/ UpdateConfig
    \/ SaveConfig
    \/ CrcRequest
    \/ ReadTimeout
    \/ ReadFrame
    \/ Verify
    \/ RunApplication
    \/ WriteFails

Spec == Init /\ [][Next]_vars

\* The sessions main starts from one base address: flash_binary gets its
\* default page size.
MainInit ==
    /\ Init
    /\ page_size = CHUNK_SIZE
    /\ base_address = 134217728

\* The program always takes its next step; a frame on its way arrives.
FairSpec == MainInit /\ [][Next]_vars /\ WF_vars(Next)

(***************************************************************************)
(* config_update_and_save called on its own, with any partial config, on   *)
(* nodes that hold a config already.                                       *)
(***************************************************************************)
\* The configs config_update_and_save is called with.
PartialConfigs ==
    {NoConfig, [ID |-> 1], [ID |-> 7]}
    \cup {[application_crc |-> crc32(b)] : b \in Images}
    \cup {[application_size |-> Len(b), application_crc |-> crc32(b)] : b \in Images}

\* What a node holds before the call: the factory config, alone or with the
\* entries of an application flashed earlier.
DeviceConfigs ==
    {FactoryConfig,
     [name |-> "node", ID |-> 7,
      application_size |-> MaxLen + 1, application_crc |-> AllOnes]}

ConfigInit ==
    /\ config \in PartialConfigs
    /\ cfg \in [Nodes -> DeviceConfigs]
    /\ destinations \in DestinationLists
    /\ pc = "update_config"
    /\ binary \in {Ramp(MaxLen, 255)}
    /\ base_address \in {0}
    /\ device_class \in DeviceClasses
    /\ page_size = CHUNK_SIZE
    /\ run = FALSE
    /\ fault = [n \in Nodes |-> "none"]
    /\ offset = 0
    /\ index = 0
    /\ node_index = 0
    /\ valid_nodes = <<>>
    /\ buf = <<>>
    /\ received = <<>>
    /\ decodes = 0
    /\ timed_out = FALSE
    /\ report = "none"
    /\ failed_nodes = {}
    /\ exit_status = -1
    /\ sent = <<>>
    /\ wire = <<>>
    /\ crc_log = <<>>
    /\ rx = <<>>
    /\ mem = [n \in Nodes |-> [i \in 1..MemSpan |-> 0]]

\* The steps of config_update_and_save.
ConfigNext ==
    \/ UpdateConfig
    \/ SaveConfig
    \/ WriteFails

ConfigSpec == ConfigInit /\ [][ConfigNext]_vars

(***************************************************************************)
(* What the properties speak about.                                        *)
(***************************************************************************)
\* The dispatched entries of one kind, in dispatch order.
SentOfKind(kind) == SelectSeq(sent, LAMBDA e : e.command.kind = kind)

\* Position of a command kind in the order erase, write, update, save.
Phase(kind) ==
    CASE kind = "erase-page" -> 1
      [] kind = "write-flash" -> 2
      [] kind = "update-config" -> 3
      [] kind = "save-config" -> 4
      [] OTHER -> 5

\* flash_binary has returned to main.
FlashReturned == pc \in {"check", "read", "run", "done", "exit"}

\* The erase loop of flash_binary has run to its end.
EraseLoopOver == pc \notin {"erase", "crashed"}

\* The write loop of flash_binary has run to its end.
WriteLoopOver == pc \notin {"erase", "write", "crashed"}

\* check_binary has returned to main.
CheckReturned ==
    \/ report # "none"
    \/ pc = "check" /\ node_index = Len(destinations)

\* What a node would report for the region of the image.
StoredCrc(n) == crc32(Region(mem[n], base_address, Len(binary)))

\* The storage of a node differs from the image.
Diverges(n) == Region(mem[n], base_address, Len(binary)) # binary

\* The places of the settle delays in the transport log.
SleepPositions ==
    SelectSeq([i \in 1..Len(wire) |-> i], LAMBDA i : wire[i].event = "sleep")

RECURSIVE Concat(_)
Concat(ss) == IF ss = <<>> THEN <<>> ELSE Head(ss) \o Concat(Tail(ss))

(***************************************************************************)
(* C1: the commands of flash_binary go out in phase order: no erase-page   *)
(* after a write-flash, no erase-page or write-flash after update-config,  *)
(* and nothing of flash_binary after save-config; once flash_binary has    *)
(* returned, its last command is save-config.                              *)
(***************************************************************************)
C1_PhasesOrdered ==
    /\ \A i, j \in 1..Len(sent) :
          i < j /\ Phase(sent[j].command.kind) <= 4
              => Phase(sent[i].command.kind) <= Phase(sent[j].command.kind)
    /\ \A i, j \in 1..Len(sent) :
          i < j /\ sent[i].command.kind = "save-config"
              => Phase(sent[j].command.kind) = 5
    /\ FlashReturned =>
          \E i \in 1..Len(sent) :
              /\ sent[i].command.kind = "save-config"
              /\ \A j \in 1..(i - 1) : Phase(sent[j].command.kind) < 4

\* All four phases have happened, with several erases and several writes.
C1_Witness ==
    /\ FlashReturned
    /\ Len(SentOfKind("erase-page")) >= 2
    /\ Len(SentOfKind("write-flash")) >= 2
    /\ Len(SentOfKind("update-config")) = 1

(***************************************************************************)
(* C2: the k-th erase-page command carries base_address + (k-1)*page_size, *)
(* every such offset is below the image length, and once the erase loop is *)
(* over there are exactly ceil(L / page_size) of them.                     *)
(***************************************************************************)
C2_ErasePages ==
    LET E == SentOfKind("erase-page")
    IN  /\ \A k \in 1..Len(E) :
              /\ E[k].command.address = base_address + (k - 1) * page_size
              /\ (k - 1) * page_size < Len(binary)
        /\ EraseLoopOver => Len(E) = CeilDiv(Len(binary), page_size)

\* An image that ends inside its third page has been erased.
C2_Witness ==
    /\ EraseLoopOver
    /\ Len(SentOfKind("erase-page")) = 3
    /\ Len(binary) % page_size # 0

(***************************************************************************)
(* C3: the i-th write-flash command (from 0) carries the image bytes       *)
(* [i*C, min((i+1)*C, L)) and the address base_address + i*C; once the     *)
(* write loop is over there are ceil(L / C) of them, all but the last of   *)
(* length C, and their data concatenated is the image.                     *)
(***************************************************************************)
C3_WriteChunks ==
    LET W == SentOfKind("write-flash")
        L == Len(binary)
    IN  /\ \A k \in 1..Len(W) :
              /\ W[k].command.address = base_address + (k - 1) * CHUNK_SIZE
              /\ W[k].command.data =
                     [b \in 1..(Min(k * CHUNK_SIZE, L) - (k - 1) * CHUNK_SIZE) |->
                         binary[(k - 1) * CHUNK_SIZE + b]]
              /\ Len(W[k].command.data) >= 1
        /\ WriteLoopOver =>
              /\ Len(W) = CeilDiv(L, CHUNK_SIZE)
              /\ \A k \in 1..(Len(W) - 1) : Len(W[k].command.data) = CHUNK_SIZE
              /\ Concat([k \in 1..Len(W) |-> W[k].command.data]) = binary

\* Three chunks have been written, the last one shorter.
C3_Witness ==
    LET W == SentOfKind("write-flash")
    IN  /\ WriteLoopOver
        /\ Len(W) = 3
        /\ Len(W[3].command.data) < CHUNK_SIZE

(***************************************************************************)
(* C4: at most one update-config command is sent, exactly one once the     *)
(* finalize step has sent it; its config has the two keys application_size *)
(* and application_crc, the image length and the CRC32 of the whole image. *)
(***************************************************************************)
C4_FinalConfig ==
    LET U == SentOfKind("update-config")
    IN  /\ Len(U) <= 1
        /\ pc \in {"save_config", "check", "read", "run", "done", "exit"}
              => Len(U) = 1
        /\ \A k \in 1..Len(U) :
              /\ DOMAIN U[k].command.config = {"application_size", "application_crc"}
              /\ U[k].command.config["application_size"] = Len(binary)
              /\ U[k].command.config["application_crc"] = crc32(binary)

\* The config of an image of several chunks has been sent from a base
\* address other than 0.
C4_Witness ==
    /\ Len(SentOfKind("update-config")) = 1
    /\ Len(binary) > CHUNK_SIZE
    /\ base_address # 0
    /\ page_size # CHUNK_SIZE

(***************************************************************************)
(* C5: when check_binary has returned, its result holds exactly the        *)
(* destinations whose stored region has the CRC32 of the image, which are  *)
(* exactly those whose storage does not diverge from the image; the set    *)
(* printed by the failure path is exactly the diverging destinations.      *)
(***************************************************************************)
C5_CheckResult ==
    CheckReturned =>
        /\ Range(valid_nodes) =
               {n \in Range(destinations) : StoredCrc(n) = crc32(binary)}
        /\ Range(valid_nodes) = {n \in Range(destinations) : ~Diverges(n)}
        /\ report = "Verification failed" =>
               failed_nodes = {n \in Range(destinations) : Diverges(n)}

\* One destination diverges, another one matches, and the failure path has
\* reported the diverging one alone.
C5_Witness ==
    /\ report = "Verification failed"
    /\ \E x \in Range(destinations) :
          /\ Diverges(x)
          /\ failed_nodes = {x}
          /\ Range(valid_nodes) = Range(destinations) \ {x}
          /\ Range(valid_nodes) # {}

(***************************************************************************)
(* C6: once check_binary has started, every destination of the list is     *)
(* eventually sent a crc-region command, whatever happens to the queries   *)
(* of the other destinations.  The formula asks for less than the claim:   *)
(* it lets a session that a transport error has ended off.                 *)
(***************************************************************************)
C6_EveryDestinationQueried ==
    (pc = "check" /\ node_index = 0)
        ~> \/ pc = "crashed"
           \/ \A i \in 1..Len(destinations) :
                 \E j \in 1..Len(sent) :
                     /\ sent[j].command.kind = "crc-region"
                     /\ sent[j].destinations = <<destinations[i]>>

(***************************************************************************)
(* C7: a destination that applies every command and answers crc-region     *)
(* holds the image once flash_binary has returned; every value crc_region  *)
(* returns for it is the CRC32 of the image, and it is in valid_nodes as   *)
(* soon as check_binary has dealt with it.                                 *)
(***************************************************************************)
C7_RoundTrip ==
    \A i \in 1..Len(destinations) :
        LET n == destinations[i]
        IN  fault[n] = "none" =>
                /\ FlashReturned => ~Diverges(n)
                /\ \A k \in 1..Len(crc_log) :
                       crc_log[k].node = n => crc_log[k].crc = crc32(binary)
                /\ FlashReturned /\ node_index >= i => n \in Range(valid_nodes)

\* An image whose length is no multiple of the chunk size has made the
\* round trip: the node was asked and is valid.
C7_Witness ==
    /\ Len(binary) > CHUNK_SIZE
    /\ Len(binary) % CHUNK_SIZE # 0
    /\ \E k \in 1..Len(crc_log) :
          /\ fault[crc_log[k].node] = "none"
          /\ crc_log[k].crc = crc32(binary)
          /\ crc_log[k].node \in Range(valid_nodes)

(***************************************************************************)
(* C8: read_can_datagram is left only by a step that takes a frame and     *)
(* after which the accumulated bytes decode to a whole datagram; a step    *)
(* that takes no frame (a timed-out read) leaves the call in its loop with *)
(* the buffer as it was, however many reads have timed out before.         *)
(***************************************************************************)
C8_ReadRetriesForever ==
    [][pc = "read" =>
          /\ pc' # "read" =>
                /\ rx # <<>>
                /\ rx' = Tail(rx)
                /\ decode_datagram(buf') # None
                /\ Len(crc_log') = Len(crc_log) + 1
          /\ rx' = rx => pc' = "read" /\ buf' = buf /\ crc_log' = crc_log
          /\ pc' = "read" /\ rx' # rx => decode_datagram(buf') = None]_vars

\* A call has returned a datagram after a timed-out read.
C8_Witness ==
    /\ pc = "check"
    /\ timed_out
    /\ crc_log # <<>>
    /\ decode_datagram(buf) # None

(***************************************************************************)
(* C9 as stated: the exit status is 1 exactly when check_binary has left a *)
(* requested destination out of its result.                                *)
(***************************************************************************)
C9_StatusOneOnlyOnMismatch ==
    exit_status = 1 <=>
        /\ CheckReturned
        /\ Range(destinations) \ Range(valid_nodes) # {}
        /\ report # "none"

(***************************************************************************)
(* C9 amended: verification_failed is called exactly when check_binary has *)
(* left a requested destination out of its result; it prints exactly the   *)
(* requested destinations minus the valid ones and the status is 1.  When  *)
(* every requested destination is valid main prints OK and does not take   *)
(* the failure path.  Status 1 is otherwise only the status of a session   *)
(* that an uncaught transport error ended.                                 *)
(***************************************************************************)
C9_FailurePath ==
    /\ report # "none" => CheckReturned
    /\ report = "Verification failed" <=>
          (report # "none" /\ Range(destinations) \ Range(valid_nodes) # {})
    /\ report = "Verification failed" =>
          /\ pc = "exit"
          /\ exit_status = 1
          /\ failed_nodes = Range(destinations) \ Range(valid_nodes)
    /\ report = "OK" =>
          /\ Range(valid_nodes) = Range(destinations)
          /\ pc # "exit"
          /\ failed_nodes = {}
    /\ exit_status = 1 => pc \in {"exit", "crashed"}
    /\ pc = "exit" => report = "Verification failed"
    /\ pc = "done" => exit_status = 0 /\ report = "OK"

\* The node that dropped its last write is reported alone, the other node
\* is valid, and the status is 1.
C9_Witness ==
    /\ pc = "exit"
    /\ exit_status = 1
    /\ \E x \in Range(destinations) :
          /\ fault[x] = "drop_last_write"
          /\ failed_nodes = {x}
          /\ Range(valid_nodes) = Range(destinations) \ {x}
          /\ Len(valid_nodes) >= 1

(***************************************************************************)
(* C10: every command but crc-region went to the list of destinations the  *)
(* session was given; the k-th crc-region command went to the k-th entry   *)
(* of that list alone.                                                     *)
(***************************************************************************)
C10_SameDestinations ==
    /\ \A i \in 1..Len(sent) :
          sent[i].command.kind # "crc-region" => sent[i].destinations = destinations
    /\ LET Q == SentOfKind("crc-region")
       IN  /\ Len(Q) <= Len(destinations)
           /\ \A k \in 1..Len(Q) : Q[k].destinations = <<destinations[k]>>

\* A session with two destinations has sent every kind of command.
C10_Witness ==
    /\ pc = "done"
    /\ Len(destinations) >= 2
    /\ Len(SentOfKind("jump-to-main")) = 1
    /\ Len(SentOfKind("crc-region")) = Len(destinations)
    /\ Len(SentOfKind("write-flash")) >= 1

(***************************************************************************)
(* C11: config_update_and_save sends two commands and no more: first       *)
(* update-config with the config it was given, then save-config without    *)
(* any parameter, both to the destinations of the session, one right after *)
(* the other.  As long as flash_binary runs, and as long as no crc-region  *)
(* command has been sent, the session has read nothing from the transport: *)
(* no frame was taken, no read timed out, nothing was decoded.             *)
(***************************************************************************)
NothingRead ==
    /\ received = <<>>
    /\ buf = <<>>
    /\ decodes = 0
    /\ ~timed_out
    /\ crc_log = <<>>

C11_ConfigUpdateAndSave ==
    /\ Len(SentOfKind("save-config")) <= Len(SentOfKind("update-config"))
    /\ Len(SentOfKind("update-config")) <= 1
    /\ \A i \in 1..Len(sent) :
          sent[i].command.kind = "update-config" =>
              /\ sent[i].command.config = config
              /\ sent[i].destinations = destinations
              /\ i < Len(sent) => sent[i + 1].command.kind = "save-config"
    /\ \A i \in 1..Len(sent) :
          sent[i].command.kind = "save-config" =>
              /\ i > 1
              /\ sent[i - 1].command.kind = "update-config"
              /\ sent[i].destinations = sent[i - 1].destinations
              /\ sent[i].command.config = NoConfig
              /\ sent[i].command.data = <<>>
    /\ FlashReturned => Len(SentOfKind("save-config")) = 1
    /\ pc \in {"erase", "write", "update_config", "save_config"} => NothingRead
    /\ SentOfKind("crc-region") = <<>> => NothingRead

\* config_update_and_save has just returned to flash_binary, which was
\* called for an image and several destinations.
C11_Witness ==
    /\ pc = "check"
    /\ node_index = 0
    /\ Len(destinations) >= 2
    /\ binary # <<>>
    /\ Len(sent) >= 2
    /\ sent[Len(sent)].command.kind = "save-config"
    /\ sent[Len(sent) - 1].command.kind = "update-config"
    /\ NothingRead

(***************************************************************************)
(* C12: the update-config command carries the config that                  *)
(* config_update_and_save was given, key for key and nothing else.  On     *)
(* nodes that merge update-config into what they hold, no step of          *)
(* config_update_and_save changes or removes a key that is absent from     *)
(* that config, a node outside the destinations keeps its whole config,    *)
(* and once update-config is sent every destination holds the given value  *)
(* under every given key.  So a call with {application_crc: v} changes no  *)
(* key other than application_crc.                                         *)
(***************************************************************************)
C12_ConfigMerge ==
    [][/\ \A n \in Nodes :
              \A k \in DOMAIN cfg[n] :
                  k \notin DOMAIN config =>
                      k \in DOMAIN cfg'[n] /\ cfg'[n][k] = cfg[n][k]
       /\ \A n \in Nodes : n \notin Range(destinations) => cfg'[n] = cfg[n]
       /\ \A n \in Nodes : DOMAIN cfg[n] \subseteq DOMAIN cfg'[n]
       /\ \A i \in 1..Len(sent') :
              sent'[i].command.kind = "update-config" =>
                  /\ DOMAIN sent'[i].command.config = DOMAIN config
                  /\ \A k \in DOMAIN config :
                         sent'[i].command.config[k] = config[k]
                  /\ \A n \in Range(destinations) :
                         \A k \in DOMAIN config :
                             k \in DOMAIN cfg'[n] /\ cfg'[n][k] = config[k]]_vars

\* A call with {application_crc: v} has reached a node that held the entries
\* of an earlier application: the crc is v, the size and the other keys are
\* as before; a node outside the destinations still has its old crc.
C12_Witness ==
    /\ DOMAIN config = {"application_crc"}
    /\ config["application_crc"] # AllOnes
    /\ Len(SentOfKind("save-config")) = 1
    /\ \E n \in Range(destinations) :
          /\ DOMAIN cfg[n] = {"name", "ID", "application_size", "application_crc"}
          /\ cfg[n]["application_crc"] = config["application_crc"]
          /\ cfg[n]["application_size"] = MaxLen + 1
          /\ cfg[n]["ID"] = 7
          /\ cfg[n]["name"] = "node"
    /\ \E n \in Nodes \ Range(destinations) :
          /\ "application_crc" \in DOMAIN cfg[n]
          /\ cfg[n]["application_crc"] = AllOnes

(***************************************************************************)
(* C13: a write that fails during the k-th dispatch of flash_binary ends   *)
(* the session with the error: the commands dispatched are the first k-1   *)
(* commands of flash_binary, each once and in order (no command again, no  *)
(* command that undoes one); after the settle delay of the last of them    *)
(* the transport has fewer than all units of the k-th command and nothing  *)
(* else; nothing was read, no verdict was printed, and the session takes   *)
(* no further step.  Units after the last settle delay are on the          *)
(* transport only in a session that has ended this way, and there is one   *)
(* settle delay per dispatched command.                                    *)
(***************************************************************************)
\* The commands of one flash_binary call, in order.
FlashPlan ==
    [k \in 1..CeilDiv(Len(binary), page_size) |->
        encode_erase_flash_page(base_address + (k - 1) * page_size, device_class)]
    \o [k \in 1..CeilDiv(Len(binary), CHUNK_SIZE) |->
           encode_write_flash(
               SubSeq(binary, (k - 1) * CHUNK_SIZE + 1, Min(k * CHUNK_SIZE, Len(binary))),
               base_address + (k - 1) * CHUNK_SIZE, device_class)]
    \o <<encode_update_config([application_size |-> Len(binary),
                               application_crc |-> crc32(binary)]),
         encode_save_config>>

\* The units on the transport after the last settle delay: they belong to
\* no completed command.
Leftover ==
    LET pos == SleepPositions
    IN  SubSeq(wire, (IF pos = <<>> THEN 1 ELSE pos[Len(pos)] + 1), Len(wire))

FailedInFlash == pc = "crashed" /\ SentOfKind("save-config") = <<>>

C13_NoRetryNoRollback ==
    LET rest == Leftover
    IN  /\ Len(SleepPositions) = Len(sent)
        /\ \A i \in 1..Len(rest) : rest[i].event = "write"
        /\ rest # <<>> => pc = "crashed"
        /\ pc = "crashed" => exit_status = 1 /\ ~ENABLED Next
        /\ FailedInFlash =>
              /\ LET plan == FlashPlan
                 IN  /\ Len(sent) < Len(plan)
                     /\ sent = [i \in 1..Len(sent) |->
                                   [command |-> plan[i], destinations |-> destinations]]
                     /\ LET failed == Units(plan[Len(sent) + 1], destinations)
                        IN  \E j \in 0..(Len(failed) - 1) :
                                rest = SubSeq(failed, 1, j)
              /\ report = "none"
              /\ failed_nodes = {}
              /\ NothingRead

\* The write of the second unit of a write-flash command failed after two
\* erases and one write: one unit of the failed command is on the transport.
C13_Witness ==
    /\ FailedInFlash
    /\ Len(SentOfKind("erase-page")) >= 2
    /\ Len(SentOfKind("write-flash")) = 1
    /\ Len(binary) > CHUNK_SIZE
    /\ Len(Leftover) = 1
    /\ Len(destinations) >= 2

(***************************************************************************)
(* C14: the transport sees the commands one after the other, in dispatch   *)
(* order: there is one settle delay per completed write_command, the       *)
(* entries before the k-th delay and after the one before it are the units *)
(* of the k-th command and nothing else, one unit per frame and in frame   *)
(* order, so that their payloads joined are the datagram of that command;  *)
(* while the session has not failed, the last thing on the transport is a  *)
(* settle delay, so no unit of a command precedes the delay of the command *)
(* before it.                                                              *)
(***************************************************************************)
C14_OrderedOnTransport ==
    LET pos == SleepPositions
        seg(k) == SubSeq(wire, (IF k = 1 THEN 1 ELSE pos[k - 1] + 1), pos[k] - 1)
    IN  /\ Len(pos) = Len(sent)
        /\ \A k \in 1..Len(sent) :
              LET u == seg(k)
              IN  /\ u # <<>>
                  /\ \A i \in 1..Len(u) :
                         /\ u[i].event = "write"
                         /\ u[i].frame.source = 0
                         /\ Len(u[i].frame.data) >= 1
                         /\ Len(u[i].frame.data) <= MaxFrameData
                         /\ i < Len(u) => Len(u[i].frame.data) = MaxFrameData
                  /\ Concat([i \in 1..Len(u) |-> u[i].frame.data]) =
                         encode_datagram(command_bytes(sent[k].command),
                                         sent[k].destinations)
        /\ pc # "crashed" /\ wire # <<>> => wire[Len(wire)].event = "sleep"
        /\ \A i \in 1..Len(wire) :
              (Len(pos) = 0 \/ i > pos[Len(pos)]) /\ pc = "crashed"
                  => wire[i].event = "write"

\* A whole session is on the transport, with a command of three units or
\* more among its commands.
C14_Witness ==
    /\ pc = "done"
    /\ Len(SentOfKind("jump-to-main")) = 1
    /\ Len(SleepPositions) = Len(sent)
    /\ Len(sent) >= 6
    /\ \E k \in 2..Len(sent) :
          /\ SleepPositions[k] - SleepPositions[k - 1] >= 4
          /\ sent[k].command.kind = "write-flash"

(***************************************************************************)
(* C15: crc_region is one request and one response.  The k-th value it     *)
(* returned answers the k-th crc-region command, which went to the one     *)
(* queried destination and asked for the region of the image; there is one *)
(* crc-region command per returned value, and one more while a call waits. *)
(* Every frame the call takes from the transport goes into its datagram,   *)
(* whoever sent it.  When the call has returned, the frames it took are    *)
(* exactly one datagram, no proper part of them is one, and the value      *)
(* returned is the unpacked payload of that datagram, logged for the       *)
(* queried destination.                                                    *)
(***************************************************************************)
\* The payloads of the frames the current call has received, joined.
ReceivedBytes == Concat([i \in 1..Len(received) |-> received[i].data])

CrcRegionReturned == pc # "read" /\ crc_log # <<>>

C15_RoundTrips ==
    LET Q == SentOfKind("crc-region")
    IN  /\ Len(Q) = Len(crc_log) + (IF pc = "read" THEN 1 ELSE 0)
        /\ \A k \in 1..Len(Q) :
              /\ Len(Q[k].destinations) = 1
              /\ Q[k].command = encode_crc_region(base_address, Len(binary))
        /\ \A k \in 1..Len(crc_log) :
              /\ Q[k].destinations = <<crc_log[k].node>>
              /\ crc_log[k].node = destinations[k]
        /\ CrcRegionReturned =>
              LET d == decode_datagram(ReceivedBytes)
              IN  /\ d # None
                  /\ ReceivedBytes = encode_datagram(d[1], d[2])
                  /\ crc_log[Len(crc_log)].crc = unpackb(d[1])
                  /\ \A j \in 0..(Len(received) - 1) :
                         decode_datagram(
                             Concat([i \in 1..j |-> received[i].data])) = None

C15_SingleRoundTrip ==
    [][/\ pc = "read" /\ rx' # rx =>
              /\ rx # <<>>
              /\ rx' = Tail(rx)
              /\ received' = Append(received, Head(rx))
       /\ C15_RoundTrips']_vars

\* crc_region has returned, for a node that holds the image, the value of a
\* datagram that another node sent, and check_binary has taken the queried
\* node as valid.
C15_Witness ==
    /\ CrcRegionReturned
    /\ pc = "check"
    /\ received # <<>>
    /\ \A i \in 1..Len(received) :
          received[i].source # crc_log[Len(crc_log)].node
    /\ crc_log[Len(crc_log)].node \in Range(valid_nodes)
    /\ Len(received) >= 2

(***************************************************************************)
(* C16: check_binary queries one destination at a time.  The k-th          *)
(* crc-region command goes to the k-th entry of the list, so the entries   *)
(* are queried in list order and each once; at most one query is without   *)
(* its response, and exactly while crc_region waits in read_can_datagram;  *)
(* a crc-region command is dispatched only from check_binary itself, when  *)
(* every earlier query has its response and, if there was one, the call    *)
(* before holds a complete datagram.  When check_binary has returned,      *)
(* there is one query and one response per list entry.                     *)
(***************************************************************************)
Outstanding == Len(SentOfKind("crc-region")) - Len(crc_log)

C16_Sequential ==
    LET Q == SentOfKind("crc-region")
    IN  /\ Len(Q) <= Len(destinations)
        /\ \A k \in 1..Len(Q) : Q[k].destinations = <<destinations[k]>>
        /\ Outstanding \in {0, 1}
        /\ Outstanding = 1 <=> pc = "read"
        /\ pc = "read" => node_index = Len(crc_log) /\ Len(Q) = node_index + 1
        /\ CheckReturned =>
              Len(Q) = Len(destinations) /\ Len(crc_log) = Len(destinations)

C16_SequentialQueries ==
    [][/\ Len(SentOfKind("crc-region")') > Len(SentOfKind("crc-region")) =>
              /\ pc = "check"
              /\ Outstanding = 0
              /\ Len(SentOfKind("crc-region")') = Len(SentOfKind("crc-region")) + 1
              /\ crc_log # <<>> => decode_datagram(buf) # None
              /\ pc' = "read"
       /\ C16_Sequential']_vars

\* check_binary has returned after three round trips, one of which waited
\* through a timed-out read.
C16_Witness ==
    /\ CheckReturned
    /\ pc = "check"
    /\ Len(destinations) = 3
    /\ Len(crc_log) = 3
    /\ Len(SentOfKind("crc-region")) = 3
    /\ timed_out

(***************************************************************************)
(* C17: a call of read_can_datagram starts with an empty accumulator; at   *)
(* every point of the call the accumulator is the payloads of the frames   *)
(* received in the call, joined in arrival order, and there has been one   *)
(* decode per received frame.  A read that times out changes neither the   *)
(* accumulator nor the number of decodes.  A received frame is appended    *)
(* and decoded, and the call returns with that frame exactly when the      *)
(* accumulator then decodes; so while the call runs no part of what it     *)
(* received decodes, and when it has returned the whole does and no        *)
(* proper part does.  After the return nothing is taken from the transport *)
(* until the next call.                                                    *)
(***************************************************************************)
C17_Accumulated ==
    /\ buf = ReceivedBytes
    /\ decodes = Len(received)
    /\ \A j \in 0..(Len(received) - 1) :
          decode_datagram(Concat([i \in 1..j |-> received[i].data])) = None
    /\ pc = "read" => decode_datagram(buf) = None
    /\ CrcRegionReturned => decode_datagram(buf) # None

C17_Accumulator ==
    [][/\ pc # "read" /\ pc' = "read" =>
              buf' = <<>> /\ received' = <<>> /\ decodes' = 0
       /\ pc = "read" /\ rx' = rx =>
              buf' = buf /\ decodes' = decodes /\ received' = received /\ pc' = "read"
       /\ pc = "read" /\ rx' # rx =>
              /\ buf' = buf \o Head(rx).data
              /\ decodes' = decodes + 1
              /\ pc' # "read" <=> decode_datagram(buf') # None
       /\ pc # "read" =>
              /\ Len(rx') >= Len(rx)
              /\ SubSeq(rx', 1, Len(rx)) = rx
              /\ pc' # "read" => buf' = buf /\ decodes' = decodes
       /\ C17_Accumulated']_vars

\* A call has returned a datagram of several frames after a timed-out read,
\* and has left the frames behind it on the transport.
C17_Witness ==
    /\ CrcRegionReturned
    /\ pc = "check"
    /\ Len(received) >= 2
    /\ decodes = Len(received)
    /\ Len(buf) > MaxFrameData
    /\ timed_out
    /\ rx # <<>>

(***************************************************************************)
(* C18: a jump-to-main command is sent at most once, and only in a session *)
(* with the run flag set in which flash_binary has sent all its commands   *)
(* and check_binary has returned with every requested destination valid;   *)
(* it is then the last command and goes to the requested destinations.  A  *)
(* session without the run flag, one whose verification failed and one     *)
(* whose verification has not completed send no jump-to-main and are not   *)
(* about to.                                                               *)
(***************************************************************************)
C18_JumpOnlyAfterSuccess ==
    LET J == SentOfKind("jump-to-main")
    IN  /\ Len(J) <= 1
        /\ J # <<>> \/ pc = "run" =>
              /\ run
              /\ report = "OK"
              /\ Range(valid_nodes) = Range(destinations)
              /\ Len(crc_log) = Len(destinations)
              /\ Len(SentOfKind("crc-region")) = Len(destinations)
              /\ LET plan == FlashPlan
                 IN  /\ Len(sent) >= Len(plan)
                     /\ \A i \in 1..Len(plan) : sent[i].command = plan[i]
        /\ J # <<>> =>
              /\ sent[Len(sent)].command.kind = "jump-to-main"
              /\ J[1].destinations = destinations
        /\ ~run \/ report # "OK" \/ ~CheckReturned => J = <<>> /\ pc # "run"

\* The application was started on several nodes after a session that
\* flashed an image and found every node valid.
C18_Witness ==
    /\ Len(SentOfKind("jump-to-main")) = 1
    /\ run
    /\ report = "OK"
    /\ Len(destinations) >= 2
    /\ binary # <<>>
    /\ pc = "done"

(***************************************************************************)
(* C19: every byte address that a write-flash command carries lies in the  *)
(* page [a, a + page_size) of an erase-page command with address a that    *)
(* was dispatched before it, for every image length, base address and page *)
(* size, the page sizes other than the chunk size included.                *)
(***************************************************************************)
C19_ErasedBeforeWritten ==
    \A i \in 1..Len(sent) :
        sent[i].command.kind = "write-flash" =>
            \A b \in 0..(Len(sent[i].command.data) - 1) :
                \E j \in 1..(i - 1) :
                    /\ sent[j].command.kind = "erase-page"
                    /\ sent[j].command.address <= sent[i].command.address + b
                    /\ sent[i].command.address + b
                           < sent[j].command.address + page_size

\* An image has been written whose chunks do not line up with the pages:
\* a chunk lies across two erased pages.
C19_Witness ==
    /\ WriteLoopOver
    /\ page_size > CHUNK_SIZE
    /\ base_address # 0
    /\ Len(SentOfKind("write-flash")) >= 2
    /\ \E i \in 1..Len(sent) :
          /\ sent[i].command.kind = "write-flash"
          /\ Len(sent[i].command.data) >= 2
          /\ \E j \in 1..(i - 1) :
                /\ sent[j].command.kind = "erase-page"
                /\ sent[i].command.address < sent[j].command.address
                /\ sent[j].command.address
                       < sent[i].command.address + Len(sent[i].command.data)

(***************************************************************************)
(* C20: once flash_binary has returned it has dispatched                   *)
(* ceil(L / page_size) + ceil(L / CHUNK_SIZE) + 2 commands.  For the empty *)
(* image these are two: update-config with application_size 0 and          *)
(* application_crc 0, the CRC32 of the empty byte string, and save-config; *)
(* no erase-page and no write-flash is dispatched.                         *)
(***************************************************************************)
\* The commands that flash_binary dispatched.
FlashCommands == SelectSeq(sent, LAMBDA e : Phase(e.command.kind) <= 4)

C20_CommandCount ==
    /\ Len(FlashCommands)
          <= CeilDiv(Len(binary), page_size) + CeilDiv(Len(binary), CHUNK_SIZE) + 2
    /\ FlashReturned =>
          Len(FlashCommands)
              = CeilDiv(Len(binary), page_size) + CeilDiv(Len(binary), CHUNK_SIZE) + 2
    /\ binary = <<>> =>
          /\ SentOfKind("erase-page") = <<>>
          /\ SentOfKind("write-flash") = <<>>
          /\ crc32(binary) = Word(0, 0)
          /\ FlashReturned =>
                /\ FlashCommands[1] =
                       [command |-> encode_update_config(
                                        [application_size |-> 0,
                                         application_crc |-> Word(0, 0)]),
                        destinations |-> destinations]
                /\ FlashCommands[2] =
                       [command |-> encode_save_config, destinations |-> destinations]

\* flash_binary has returned for the empty image.
C20_Witness ==
    /\ binary = <<>>
    /\ FlashReturned
    /\ Len(FlashCommands) = 2
    /\ sent[1].command.kind = "update-config"
    /\ sent[1].command.config["application_size"] = 0

====
